---- MODULE Spec2Model ----
(***************************************************************************)
(* State-machine model of the Achievo certificate registry contract        *)
(* (src/achievo/src/contract.ts, class AchievoContract).                   *)
(*                                                                         *)
(* The persistent state is the five LookupMaps and the two counters of the *)
(* class.  Every @call / @view method is one action.  A request is         *)
(* executed atomically by the platform: a handler that throws leaves the   *)
(* persistent state as it was.  The outcome of the request being answered  *)
(* is held in `last` until the platform hands it to the caller (Respond).  *)
(*                                                                         *)
(* Record fields that are written once from a request parameter and that   *)
(* no handler reads are represented by one field of their kind: `name`     *)
(* stands for an identity's descriptive fields and `course_name` for the   *)
(* descriptive fields of a metadata payload.  Of the values read from the  *)
(* clock the model keeps the two a certificate carries, issued_at and      *)
(* updated_at; near.log lines are not state and are not modelled.          *)
(***************************************************************************)
EXTENDS Integers, Sequences, FiniteSets, TLC

(***************************************************************************)
(* Bounds of the model.                                                    *)
(***************************************************************************)
MaxCerts == 2
MaxRewards == 2
MaxLog == 3
MaxTime == 1
MaxDeposit == 1

(***************************************************************************)
(* Input universes.                                                        *)
(***************************************************************************)
Accounts == {"alice", "school"}
IndividualNames == {"n1", "n2"}
OrganizationNames == {"o1"}
Courses == {"course1"}
Statuses == {"completed", "revoked"}
Reasons == {<<"fraud">>}
Milestones == {"m1"}
\* metadata payloads supplied by the caller of issue_certificate; the three
\* bound fields carry values that differ from every explicit parameter
Payloads ==
    { [learner_id |-> "mallory", course_id |-> "bogus",
       course_name |-> cn, issuer_org_id |-> "mallory"] : cn \in {"Blockchain"} }
\* the amount argument of process_payment is a string: a sequence of characters
AmountStrings ==
    { <<>>, <<"1">>, <<"2">>, <<"-", "1">>, <<"x">> }
Deposits == 0..MaxDeposit

VARIABLES
    individuals,          \* LookupMap<Individual>
    organizations,        \* LookupMap<Organization>
    certificates,         \* LookupMap<Certificate>
    rewards,              \* LookupMap<Reward>
    certificate_history,  \* LookupMap<UpdateLog[]>
    certificate_counter,
    reward_counter,
    clock,                \* the last value read from the platform clock
    last                  \* the request being answered, or NoCall

registry == <<individuals, organizations, certificates, rewards,
              certificate_history, certificate_counter, reward_counter>>
vars == <<individuals, organizations, certificates, rewards,
          certificate_history, certificate_counter, reward_counter, clock, last>>

(***************************************************************************)
(* LookupMap: a function whose domain is the set of keys that were set.    *)
(***************************************************************************)
EmptyMap == [k \in {} |-> TRUE]
Has(m, k) == k \in DOMAIN m
Put(m, k, v) == [x \in (DOMAIN m) \cup {k} |-> IF x = k THEN v ELSE m[x]]

\* `cert_${n}` and `reward_${n}`: a prefix and the decimal numeral of n
CertId(n) == <<"cert", n>>
RewardId(n) == <<"reward", n>>
CertIdInputs == { CertId(n) : n \in 1..(MaxCerts + 1) }

\* the number of UpdateLog entries stored, over all certificates
RECURSIVE SumLen(_, _)
SumLen(h, keys) ==
    IF keys = {} THEN 0
    ELSE LET k == CHOOSE x \in keys : TRUE
         IN Len(h[k]) + SumLen(h, keys \ {k})
LogEntries == SumLen(certificate_history, DOMAIN certificate_history)

(***************************************************************************)
(* Failures, by the message thrown.                                        *)
(***************************************************************************)
AlreadyRegistered == "AlreadyRegistered"
Unauthorized == "Unauthorized"
NotFound == "NotFound"
InsufficientFunds == "InsufficientFunds"
Revoked == "Revoked"
SyntaxError == "SyntaxError"
NoError == "none"

NoCall ==
    [method |-> "none", caller |-> "none", args |-> <<>>, error |-> NoError,
     ret |-> <<>>, transfers |-> <<>>]
Failed(method, caller, args, err) ==
    [method |-> method, caller |-> caller, args |-> args, error |-> err,
     ret |-> <<>>, transfers |-> <<>>]
Returned(method, caller, args, ret) ==
    [method |-> method, caller |-> caller, args |-> args, error |-> NoError,
     ret |-> ret, transfers |-> <<>>]

Idle == last.method = "none"

Init ==
    /\ individuals = EmptyMap
    /\ organizations = EmptyMap
    /\ certificates = EmptyMap
    /\ rewards = EmptyMap
    /\ certificate_history = EmptyMap
    /\ certificate_counter = 0
    /\ reward_counter = 0
    /\ clock = 0
    /\ last = NoCall

(***************************************************************************)
(* 1. register_individual                                                  *)
(***************************************************************************)
IndividualExists(account_id) == Has(individuals, account_id)

register_individual(caller, name) ==
    /\ Idle
    /\ LET args == [name |-> name] IN
       IF IndividualExists(caller)
       THEN /\ last' = Failed("register_individual", caller, args, AlreadyRegistered)
            /\ UNCHANGED <<registry, clock>>
       ELSE /\ individuals' = Put(individuals, caller, [id |-> caller, name |-> name])
            /\ last' = Returned("register_individual", caller, args, <<>>)
            /\ UNCHANGED <<organizations, certificates, rewards, certificate_history,
                           certificate_counter, reward_counter, clock>>

(***************************************************************************)
(* 2. register_organization                                                *)
(***************************************************************************)
\* mutant: the lookup result is compared with undefined, which get never returns
OrganizationExists_NeverFound(account_id) == FALSE

OrganizationExists(account_id) == Has(organizations, account_id)

\* mutant: a new organization starts out verified
NewOrganization_Verified(caller, name) ==
    [id |-> caller, name |-> name, verified |-> TRUE]

\* { id: caller, name, contact_info, verified: false, registered_at }
NewOrganization(caller, name) ==
    [id |-> caller, name |-> name, verified |-> FALSE]

register_organization(caller, name) ==
    /\ Idle
    /\ LET args == [name |-> name] IN
       IF OrganizationExists(caller)
       THEN /\ last' = Failed("register_organization", caller, args, AlreadyRegistered)
            /\ UNCHANGED <<registry, clock>>
       ELSE /\ organizations' = Put(organizations, caller, NewOrganization(caller, name))
            /\ last' = Returned("register_organization", caller, args, <<>>)
            /\ UNCHANGED <<individuals, certificates, rewards, certificate_history,
                           certificate_counter, reward_counter, clock>>

(***************************************************************************)
(* 3. verify_organization: the caller is not read                          *)
(***************************************************************************)
\* mutant: the flag is flipped instead of set
Verified_Toggled(organization) ==
    [organization EXCEPT !.verified = ~organization.verified]

\* organization.verified = true
Verified(organization) == [organization EXCEPT !.verified = TRUE]

verify_organization(caller, organization_id) ==
    /\ Idle
    /\ LET args == [organization_id |-> organization_id] IN
       IF ~OrganizationExists(organization_id)
       THEN /\ last' = Failed("verify_organization", caller, args, NotFound)
            /\ UNCHANGED <<registry, clock>>
       ELSE /\ organizations' = Put(organizations, organization_id,
                                    Verified(organizations[organization_id]))
            /\ last' = Returned("verify_organization", caller, args, <<>>)
            /\ UNCHANGED <<individuals, certificates, rewards, certificate_history,
                           certificate_counter, reward_counter, clock>>

(***************************************************************************)
(* 4. issue_certificate                                                    *)
(***************************************************************************)
\* mutant: the verified flag is not looked at
IsVerifiedOrganization_Unverified(caller) == Has(organizations, caller)

\* !organization || !organization.verified  is the negation of this
IsVerifiedOrganization(caller) ==
    Has(organizations, caller) /\ organizations[caller].verified

\* mutant: the payload is spread last and wins over the bound fields
BindMetadata_PayloadWins(metadata, learner_id, course_id, caller) == metadata

\* { ...metadata, learner_id, course_id, issuer_org_id: caller }
BindMetadata(metadata, learner_id, course_id, caller) ==
    [metadata EXCEPT !.learner_id = learner_id,
                     !.course_id = course_id,
                     !.issuer_org_id = caller]

\* mutant: the counter is read without being incremented
NextCertificateCounter_Stale == certificate_counter

\* mutant: a number is skipped
NextCertificateCounter_Skips == certificate_counter + 2

\* this.certificate_counter++
NextCertificateCounter == certificate_counter + 1

NewCertificate(certificate_id, metadata, issued_at, updated_at) ==
    [id |-> certificate_id, metadata |-> metadata, status |-> "pending",
     issued_at |-> issued_at, updated_at |-> updated_at]

InitialLog(caller) ==
    [action |-> "issued",
     reason |-> <<"Certificate issued">>, by_account |-> caller]

issue_certificate(caller, learner_id, course_id, metadata) ==
    /\ Idle
    /\ LET args == [learner_id |-> learner_id, course_id |-> course_id,
                    metadata |-> metadata]
       IN
       IF ~IsVerifiedOrganization(caller)
       THEN /\ last' = Failed("issue_certificate", caller, args, Unauthorized)
            /\ UNCHANGED <<registry, clock>>
       ELSE IF ~IndividualExists(learner_id)
       THEN /\ last' = Failed("issue_certificate", caller, args, NotFound)
            /\ UNCHANGED <<registry, clock>>
       ELSE /\ certificate_counter < MaxCerts
            /\ LogEntries < MaxLog
            /\ \E t1 \in clock..MaxTime : \E t2 \in t1..MaxTime :
               LET certificate_id == CertId(NextCertificateCounter) IN
               /\ certificate_counter' = NextCertificateCounter
               /\ certificates' =
                    Put(certificates, certificate_id,
                        NewCertificate(certificate_id,
                                       BindMetadata(metadata, learner_id, course_id, caller),
                                       t1, t2))
               /\ certificate_history' =
                    Put(certificate_history, certificate_id, <<InitialLog(caller)>>)
               /\ clock' = t2
               /\ last' = Returned("issue_certificate", caller, args, certificate_id)
               /\ UNCHANGED <<individuals, organizations, rewards, reward_counter>>

(***************************************************************************)
(* 5. update_certificate_status                                            *)
(***************************************************************************)
\* mutant: the learner of the certificate is let through as well
IsIssuer_OrLearner(certificate, caller) ==
    \/ certificate.metadata.issuer_org_id = caller
    \/ certificate.metadata.learner_id = caller

\* mutant: any registered organization passes
IsIssuer_AnyOrganization(certificate, caller) == Has(organizations, caller)

\* certificate.metadata.issuer_org_id !== caller  is the negation of this
IsIssuer(certificate, caller) == certificate.metadata.issuer_org_id = caller

\* mutant: the stored history is not read back
HistoryOrEmpty_Fresh(certificate_id) == <<>>

\* this.certificate_history.get(certificate_id) || []
HistoryOrEmpty(certificate_id) ==
    IF Has(certificate_history, certificate_id)
    THEN certificate_history[certificate_id]
    ELSE <<>>

\* mutant: the entry is put in front (unshift)
PushLog_Front(history, entry) == <<entry>> \o history

\* history.push(entry)
PushLog(history, entry) == Append(history, entry)

\* mutant: the reason does not carry the new status
StatusUpdatedLog_FixedReason(new_status, caller) ==
    [action |-> "status_updated",
     reason |-> <<"Status changed to", "completed">>, by_account |-> caller]

StatusUpdatedLog(new_status, caller) ==
    [action |-> "status_updated",
     reason |-> <<"Status changed to", new_status>>, by_account |-> caller]

update_certificate_status(caller, certificate_id, new_status) ==
    /\ Idle
    /\ LET args == [certificate_id |-> certificate_id, new_status |-> new_status] IN
       IF ~Has(certificates, certificate_id)
       THEN /\ last' = Failed("update_certificate_status", caller, args, NotFound)
            /\ UNCHANGED <<registry, clock>>
       ELSE IF ~IsIssuer(certificates[certificate_id], caller)
       THEN /\ last' = Failed("update_certificate_status", caller, args, Unauthorized)
            /\ UNCHANGED <<registry, clock>>
       ELSE /\ LogEntries < MaxLog
            /\ \E t1 \in clock..MaxTime :
               /\ certificates' =
                    Put(certificates, certificate_id,
                        [certificates[certificate_id] EXCEPT !.status = new_status,
                                                             !.updated_at = t1])
               /\ certificate_history' =
                    Put(certificate_history, certificate_id,
                        PushLog(HistoryOrEmpty(certificate_id),
                                StatusUpdatedLog(new_status, caller)))
               /\ clock' = t1
               /\ last' = Returned("update_certificate_status", caller, args, <<>>)
               /\ UNCHANGED <<individuals, organizations, rewards,
                              certificate_counter, reward_counter>>

(***************************************************************************)
(* 6. revoke_certificate                                                   *)
(***************************************************************************)
RevokedLog(reason, caller) ==
    [action |-> "revoked",
     reason |-> reason, by_account |-> caller]

revoke_certificate(caller, certificate_id, reason) ==
    /\ Idle
    /\ LET args == [certificate_id |-> certificate_id, reason |-> reason] IN
       IF ~Has(certificates, certificate_id)
       THEN /\ last' = Failed("revoke_certificate", caller, args, NotFound)
            /\ UNCHANGED <<registry, clock>>
       ELSE IF ~IsIssuer(certificates[certificate_id], caller)
       THEN /\ last' = Failed("revoke_certificate", caller, args, Unauthorized)
            /\ UNCHANGED <<registry, clock>>
       ELSE /\ LogEntries < MaxLog
            /\ \E t1 \in clock..MaxTime :
               /\ certificates' =
                    Put(certificates, certificate_id,
                        [certificates[certificate_id] EXCEPT !.status = "revoked",
                                                             !.updated_at = t1])
               /\ certificate_history' =
                    Put(certificate_history, certificate_id,
                        PushLog(HistoryOrEmpty(certificate_id),
                                RevokedLog(reason, caller)))
               /\ clock' = t1
               /\ last' = Returned("revoke_certificate", caller, args, <<>>)
               /\ UNCHANGED <<individuals, organizations, rewards,
                              certificate_counter, reward_counter>>

(***************************************************************************)
(* 7. grant_reward: the caller is not read                                 *)
(***************************************************************************)
RewardAmount == "100"

\* this.reward_counter++
NextRewardCounter_Shared == certificate_counter + 1

NextRewardCounter == reward_counter + 1

NewReward(reward_id, learner_id, milestone) ==
    [id |-> reward_id, learner_id |-> learner_id, milestone |-> milestone,
     amount |-> RewardAmount]

\* mutant: the counter is incremented before the learner is looked up and the
\* increment survives the failure
grant_reward_CountsFirst(caller, learner_id, milestone) ==
    /\ Idle
    /\ reward_counter < MaxRewards
    /\ LET args == [learner_id |-> learner_id, milestone |-> milestone]
           reward_id == RewardId(NextRewardCounter)
       IN
       /\ reward_counter' = NextRewardCounter
       /\ IF ~IndividualExists(learner_id)
          THEN /\ last' = Failed("grant_reward", caller, args, NotFound)
               /\ UNCHANGED rewards
          ELSE /\ rewards' = Put(rewards, reward_id,
                                 NewReward(reward_id, learner_id, milestone))
               /\ last' = Returned("grant_reward", caller, args, reward_id)
       /\ UNCHANGED <<individuals, organizations, certificates,
                      certificate_history, certificate_counter, clock>>

grant_reward(caller, learner_id, milestone) ==
    /\ Idle
    /\ LET args == [learner_id |-> learner_id, milestone |-> milestone] IN
       IF ~IndividualExists(learner_id)
       THEN /\ last' = Failed("grant_reward", caller, args, NotFound)
            /\ UNCHANGED <<registry, clock>>
       ELSE /\ reward_counter < MaxRewards
            /\ LET reward_id == RewardId(NextRewardCounter) IN
               /\ reward_counter' = NextRewardCounter
               /\ rewards' = Put(rewards, reward_id,
                                 NewReward(reward_id, learner_id, milestone))
               /\ last' = Returned("grant_reward", caller, args, reward_id)
               /\ UNCHANGED <<individuals, organizations, certificates,
                              certificate_history, certificate_counter, clock>>

(***************************************************************************)
(* 8. list_rewards (view)                                                  *)
(***************************************************************************)
\* the loop  for (let i = 1; i <= this.reward_counter; i++)  from index i on
RECURSIVE ScanRewards(_, _, _)
ScanRewards(i, learner_id, acc) ==
    IF i > reward_counter
    THEN acc
    ELSE IF Has(rewards, RewardId(i)) /\ rewards[RewardId(i)].learner_id = learner_id
         THEN ScanRewards(i + 1, learner_id, Append(acc, rewards[RewardId(i)]))
         ELSE ScanRewards(i + 1, learner_id, acc)

\* mutant: the loop starts one index late
ListRewards_FromTwo(learner_id) == ScanRewards(2, learner_id, <<>>)

ListRewards(learner_id) == ScanRewards(1, learner_id, <<>>)

list_rewards(learner_id) ==
    /\ Idle
    /\ last' = Returned("list_rewards", "none", [learner_id |-> learner_id],
                        ListRewards(learner_id))
    /\ UNCHANGED <<registry, clock>>

(***************************************************************************)
(* 9. validate_certificate (view): null is <<>>, a value v is <<v>>        *)
(***************************************************************************)
\* mutant: the status is compared with a differently spelt literal
IsRevoked_Misspelt(certificate) == certificate.status = "Revoked"

\* certificate.status === "revoked"
IsRevoked(certificate) == certificate.status = "revoked"

validate_certificate(certificate_id) ==
    /\ Idle
    /\ LET args == [certificate_id |-> certificate_id] IN
       IF ~Has(certificates, certificate_id)
       THEN last' = Returned("validate_certificate", "none", args, <<>>)
       ELSE IF IsRevoked(certificates[certificate_id])
       THEN last' = Failed("validate_certificate", "none", args, Revoked)
       ELSE last' = Returned("validate_certificate", "none", args,
                             <<certificates[certificate_id].metadata>>)
    /\ UNCHANGED <<registry, clock>>

(***************************************************************************)
(* 10. get_certificate_history (view)                                      *)
(***************************************************************************)
get_certificate_history(certificate_id) ==
    /\ Idle
    /\ last' = Returned("get_certificate_history", "none",
                        [certificate_id |-> certificate_id],
                        HistoryOrEmpty(certificate_id))
    /\ UNCHANGED <<registry, clock>>

(***************************************************************************)
(* 11. process_payment (payable)                                           *)
(***************************************************************************)
Digits == {"0", "1", "2"}
DigitValue(c) == CASE c = "0" -> 0 [] c = "1" -> 1 [] c = "2" -> 2

IsDecimal(s) == Len(s) > 0 /\ \A i \in 1..Len(s) : s[i] \in Digits

RECURSIVE DecimalValue(_)
DecimalValue(s) ==
    IF s = <<>> THEN 0
    ELSE 10 * DecimalValue(SubSeq(s, 1, Len(s) - 1)) + DigitValue(s[Len(s)])

\* BigInt(amount): the empty string is 0n, an optionally signed decimal
\* numeral is its value, anything else throws a SyntaxError
BigIntOf(amount) ==
    IF amount = <<>> THEN [ok |-> TRUE, value |-> 0]
    ELSE IF IsDecimal(amount) THEN [ok |-> TRUE, value |-> DecimalValue(amount)]
    ELSE IF amount[1] = "-" /\ IsDecimal(Tail(amount))
         THEN [ok |-> TRUE, value |-> 0 - DecimalValue(Tail(amount))]
    ELSE IF amount[1] = "+" /\ IsDecimal(Tail(amount))
         THEN [ok |-> TRUE, value |-> DecimalValue(Tail(amount))]
    ELSE [ok |-> FALSE, value |-> 0]

\* mutant: a deposit equal to the amount is refused
DepositTooSmall_OrEqual(attached_deposit, payment_amount) ==
    attached_deposit <= payment_amount

\* attached_deposit < payment_amount
DepositTooSmall(attached_deposit, payment_amount) == attached_deposit < payment_amount

\* !this.individuals.get(recipient_id) && !this.organizations.get(recipient_id)
RecipientMissing(recipient_id) ==
    ~IndividualExists(recipient_id) /\ ~OrganizationExists(recipient_id)

\* promiseBatchCreate(recipient_id); promiseBatchActionTransfer(promise, payment_amount)
Transfer(recipient_id, payment_amount) ==
    [receiver_id |-> recipient_id, amount |-> payment_amount]

process_payment(sender, recipient_id, amount, attached_deposit) ==
    /\ Idle
    /\ LET args == [recipient_id |-> recipient_id, amount |-> amount,
                    attached_deposit |-> attached_deposit]
           payment_amount == BigIntOf(amount)
       IN
       IF ~payment_amount.ok
       THEN last' = Failed("process_payment", sender, args, SyntaxError)
       ELSE IF DepositTooSmall(attached_deposit, payment_amount.value)
       THEN last' = Failed("process_payment", sender, args, InsufficientFunds)
       ELSE IF RecipientMissing(recipient_id)
       THEN last' = Failed("process_payment", sender, args, NotFound)
       ELSE last' = [Returned("process_payment", sender, args, <<>>)
                       EXCEPT !.transfers =
                           <<Transfer(recipient_id, payment_amount.value)>>]
    /\ UNCHANGED <<registry, clock>>

\* the platform hands the outcome to the caller; the next request may start
Respond ==
    /\ ~Idle
    /\ last' = NoCall
    /\ UNCHANGED <<registry, clock>>

Next ==
    \/ \E c \in Accounts, n \in IndividualNames : register_individual(c, n)
    \/ \E c \in Accounts, n \in OrganizationNames : register_organization(c, n)
    \/ \E c \in Accounts, o \in Accounts : verify_organization(c, o)
    \/ \E c \in Accounts, l \in Accounts, co \in Courses, md \in Payloads :
          issue_certificate(c, l, co, md)
    \/ \E c \in Accounts, id \in CertIdInputs, st \in Statuses :
          update_certificate_status(c, id, st)
    \/ \E c \in Accounts, id \in CertIdInputs, r \in Reasons :
          revoke_certificate(c, id, r)
    \/ \E c \in Accounts, l \in Accounts, m \in Milestones : grant_reward(c, l, m)
    \/ \E l \in Accounts : list_rewards(l)
    \/ \E id \in CertIdInputs : validate_certificate(id)
    \/ \E id \in CertIdInputs : get_certificate_history(id)
    \/ \E c \in Accounts, r \in Accounts, a \in AmountStrings, d \in Deposits :
          process_payment(c, r, a, d)
    \/ Respond

Spec == Init /\ [][Next]_vars

(***************************************************************************)
(* Properties.  A step in which the request `method` is handled is a step  *)
(* from an idle state whose outcome names that method; the unprimed        *)
(* variables are the state the handler ran in.                             *)
(***************************************************************************)
Handled(method) == Idle /\ last'.method = method

VerifiedOrganizationIn(orgs, account_id) ==
    account_id \in DOMAIN orgs /\ orgs[account_id].verified

\* C1: issue_certificate by caller c fails with Unauthorized unless c is a
\* registered organization whose verified flag is true (checked first) and
\* fails with NotFound if learner_id is not a registered individual; every
\* certificate that comes into existence has an issuer that was verified when
\* it was issued, and a verified flag only becomes true in a successful
\* verify_organization call for that organization.
C1_IssueRequiresVerifiedIssuer ==
    [][ /\ Handled("issue_certificate") =>
             LET c == last'.caller
                 l == last'.args.learner_id
             IN /\ ~VerifiedOrganizationIn(organizations, c)
                      => last'.error = Unauthorized
                /\ (VerifiedOrganizationIn(organizations, c) /\ l \notin DOMAIN individuals)
                      => last'.error = NotFound
                /\ (VerifiedOrganizationIn(organizations, c) /\ l \in DOMAIN individuals)
                      => last'.error = NoError
        /\ \A id \in (DOMAIN certificates') \ (DOMAIN certificates) :
             VerifiedOrganizationIn(organizations, certificates'[id].metadata.issuer_org_id)
        /\ \A o \in DOMAIN organizations' :
             (organizations'[o].verified /\ ~VerifiedOrganizationIn(organizations, o))
                => /\ last'.method = "verify_organization"
                   /\ last'.error = NoError
                   /\ last'.args.organization_id = o
      ]_vars

\* an organization that registered but was never verified is refused although
\* the learner is registered, while another issuer's certificate exists
C1_Witness ==
    /\ last.method = "issue_certificate"
    /\ last.error = Unauthorized
    /\ last.caller \in DOMAIN organizations
    /\ ~organizations[last.caller].verified
    /\ last.args.learner_id \in DOMAIN individuals
    /\ certificate_counter > 0

C3_HistoryCountsSuccessfulCalls ==
    [][ /\ \A id \in (DOMAIN certificates') \ (DOMAIN certificates) :
             id \in DOMAIN certificate_history' /\ Len(certificate_history'[id]) = 1
        /\ \A id \in DOMAIN certificates :
             LET h == certificate_history[id]
                 succeeded(m) == /\ Handled(m)
                                 /\ last'.error = NoError
                                 /\ last'.args.certificate_id = id
             IN /\ id \in DOMAIN certificate_history
                /\ id \in DOMAIN certificate_history'
                /\ succeeded("update_certificate_status")
                     => /\ Len(certificate_history'[id]) = Len(h) + 1
                        /\ SubSeq(certificate_history'[id], 1, Len(h)) = h
                        /\ certificate_history'[id][Len(h) + 1].action = "status_updated"
                /\ succeeded("revoke_certificate")
                     => /\ Len(certificate_history'[id]) = Len(h) + 1
                        /\ SubSeq(certificate_history'[id], 1, Len(h)) = h
                        /\ certificate_history'[id][Len(h) + 1].action = "revoked"
                /\ ~(succeeded("update_certificate_status") \/ succeeded("revoke_certificate"))
                     => certificate_history'[id] = h
        /\ Handled("get_certificate_history") =>
             LET id == last'.args.certificate_id IN
             /\ last'.error = NoError
             /\ id \in DOMAIN certificate_history => last'.ret = certificate_history[id]
             /\ id \notin DOMAIN certificate_history => last'.ret = <<>>
      ]_vars

\* the history read back after a revoke followed by a status update
C3_Witness ==
    /\ last.method = "get_certificate_history"
    /\ Len(last.ret) = 3
    /\ last.ret[1].action = "issued"
    /\ last.ret[2].action = "revoked"
    /\ last.ret[3].action = "status_updated"

CertNumber(certificate_id) == certificate_id[2]

\* C4: a successful issue_certificate returns an id whose number is greater
\* than that of every certificate stored before, which was not stored before
\* and is stored afterwards; the certificates stored before are left as they
\* were, and no step removes a certificate.
C4_CertificateIdsIncrease ==
    [][ /\ (Handled("issue_certificate") /\ last'.error = NoError) =>
             /\ \A id \in DOMAIN certificates : CertNumber(last'.ret) > CertNumber(id)
             /\ last'.ret \notin DOMAIN certificates
             /\ last'.ret \in DOMAIN certificates'
             /\ certificates'[last'.ret].id = last'.ret
             /\ \A id \in DOMAIN certificates : certificates'[id] = certificates[id]
        /\ DOMAIN certificates \subseteq DOMAIN certificates'
      ]_vars

\* the second issuance, by a different issuer for a different learner
C4_Witness ==
    /\ last.method = "issue_certificate"
    /\ last.error = NoError
    /\ last.ret = CertId(2)
    /\ certificates[CertId(1)].metadata.issuer_org_id # last.caller
    /\ certificates[CertId(1)].metadata.learner_id # last.args.learner_id

\* C5: validate_certificate returns null when no certificate has the id, fails
\* with Revoked exactly when the certificate exists with status "revoked", and
\* returns the stored metadata for every other status; it changes no state.
C5_ValidateCertificate ==
    [][ Handled("validate_certificate") =>
          LET id == last'.args.certificate_id IN
          /\ id \notin DOMAIN certificates
               => last'.error = NoError /\ last'.ret = <<>>
          /\ (id \in DOMAIN certificates /\ certificates[id].status = "revoked")
               => last'.error = Revoked
          /\ (id \in DOMAIN certificates /\ certificates[id].status # "revoked")
               => last'.error = NoError /\ last'.ret = <<certificates[id].metadata>>
          /\ UNCHANGED registry
      ]_vars

\* a certificate whose status was set back from revoked validates again
C5_Witness ==
    /\ last.method = "validate_certificate"
    /\ last.error = NoError
    /\ last.ret # <<>>
    /\ certificates[last.args.certificate_id].status = "completed"
    /\ Len(certificate_history[last.args.certificate_id]) = 3
    /\ certificate_history[last.args.certificate_id][2].action = "revoked"

\* C6: once a certificate's status is "revoked" no step changes it.
C6_RevokedIsTerminal ==
    [][ \A id \in DOMAIN certificates :
          certificates[id].status = "revoked"
            => id \in DOMAIN certificates' /\ certificates'[id].status = "revoked"
      ]_vars

RegisteredRecipient(recipient_id) ==
    recipient_id \in (DOMAIN individuals) \cup (DOMAIN organizations)

\* C7 as stated: process_payment fails with InsufficientFunds whenever the
\* attached value is less than amount, and with NotFound whenever the
\* recipient is neither a registered individual nor a registered organization,
\* whatever the attached value (amount being an integer numeral).
C7_PaymentFailuresAsStated ==
    [][ Handled("process_payment") =>
          LET a == BigIntOf(last'.args.amount)
              d == last'.args.attached_deposit
          IN a.ok =>
             /\ d < a.value => last'.error = InsufficientFunds
             /\ ~RegisteredRecipient(last'.args.recipient_id) => last'.error = NotFound
      ]_vars

\* C7 amended: for an amount that is an integer numeral, process_payment
\* fails with InsufficientFunds whenever the attached value is less than
\* amount, whether or not the recipient is registered, and fails with NotFound
\* whenever the recipient is neither a registered individual nor a registered
\* organization and the attached value is at least amount.
C7_PaymentFailures ==
    [][ Handled("process_payment") =>
          LET a == BigIntOf(last'.args.amount)
              d == last'.args.attached_deposit
          IN a.ok =>
             /\ d < a.value => last'.error = InsufficientFunds
             /\ (d >= a.value /\ ~RegisteredRecipient(last'.args.recipient_id))
                  => last'.error = NotFound
      ]_vars

\* a payment with too small a deposit to an unregistered recipient, and
\* another account is registered
C7_Witness ==
    /\ last.method = "process_payment"
    /\ last.error = InsufficientFunds
    /\ ~RegisteredRecipient(last.args.recipient_id)
    /\ DOMAIN individuals # {}

\* C8: process_payment delegates a transfer only when the attached value is
\* at least amount and the recipient is registered; the transfer moves
\* exactly amount, which is not negative and not more than the attached
\* value, to recipient_id; process_payment changes no registry state.
C8_TransferWithinDeposit ==
    [][ Handled("process_payment") =>
          LET a == BigIntOf(last'.args.amount)
              d == last'.args.attached_deposit
              r == last'.args.recipient_id
          IN /\ last'.transfers # <<>> =>
                  /\ a.ok
                  /\ d >= a.value
                  /\ RegisteredRecipient(r)
                  /\ last'.transfers = <<[receiver_id |-> r, amount |-> a.value]>>
                  /\ a.value >= 0
                  /\ a.value <= d
             /\ UNCHANGED registry
      ]_vars

\* C9: register_individual (register_organization) by an account that has an
\* Individual (Organization) record fails with AlreadyRegistered and leaves
\* the whole state, the stored record with it, unchanged.
C9_RegistrationIsCreateOnly ==
    [][ /\ (Handled("register_individual") /\ last'.caller \in DOMAIN individuals)
             => last'.error = AlreadyRegistered /\ UNCHANGED registry
        /\ (Handled("register_organization") /\ last'.caller \in DOMAIN organizations)
             => last'.error = AlreadyRegistered /\ UNCHANGED registry
      ]_vars

\* a verified organization tries to register again
C9_Witness ==
    /\ last.method = "register_organization"
    /\ last.error = AlreadyRegistered
    /\ organizations[last.caller].verified

RewardNumber(reward_id) == reward_id[2]

\* C10: list_rewards(learner) returns the stored rewards of that learner, each
\* once and no other, by ascending reward id, the empty sequence if there is
\* none; a reward is stored only by a successful grant_reward, under the id it
\* returns and for the learner it names, and is never changed afterwards.
C10_ListRewards ==
    [][ /\ Handled("list_rewards") =>
             LET l == last'.args.learner_id
                 r == last'.ret
             IN /\ last'.error = NoError
                /\ \A i \in 1..Len(r) :
                     /\ r[i].id \in DOMAIN rewards
                     /\ rewards[r[i].id] = r[i]
                     /\ r[i].learner_id = l
                /\ \A id \in DOMAIN rewards :
                     rewards[id].learner_id = l
                       => Cardinality({ i \in 1..Len(r) : r[i].id = id }) = 1
                /\ \A i, j \in 1..Len(r) :
                     i < j => RewardNumber(r[i].id) < RewardNumber(r[j].id)
                /\ UNCHANGED registry
        /\ \A id \in (DOMAIN rewards') \ (DOMAIN rewards) :
             /\ last'.method = "grant_reward"
             /\ last'.error = NoError
             /\ last'.ret = id
             /\ rewards'[id].id = id
             /\ rewards'[id].learner_id = last'.args.learner_id
        /\ (Handled("grant_reward") /\ last'.error = NoError)
             => last'.ret \in (DOMAIN rewards') \ (DOMAIN rewards)
        /\ \A id \in DOMAIN rewards :
             id \in DOMAIN rewards' /\ rewards'[id] = rewards[id]
      ]_vars

\* of two stored rewards the learner asked about holds the second only
C10_Witness ==
    /\ last.method = "list_rewards"
    /\ reward_counter = 2
    /\ Len(last.ret) = 1
    /\ last.ret[1].id = RewardId(2)

\* C11: an organization that comes into existence has verified = FALSE, and
\* an organization whose verified flag is TRUE keeps it TRUE in every step,
\* re-registration attempts and repeated verify_organization calls included.
C11_VerifiedIsOneWay ==
    [][ /\ \A o \in (DOMAIN organizations') \ (DOMAIN organizations) :
             /\ ~organizations'[o].verified
             /\ last'.method = "register_organization"
             /\ last'.caller = o
        /\ \A o \in DOMAIN organizations :
             organizations[o].verified
               => o \in DOMAIN organizations' /\ organizations'[o].verified
      ]_vars

\* an organization that has issued a certificate is verified once more
C11_Witness ==
    /\ last.method = "verify_organization"
    /\ last.error = NoError
    /\ \E id \in DOMAIN certificates :
         certificates[id].metadata.issuer_org_id = last.args.organization_id
    /\ organizations[last.args.organization_id].verified

IsPrefix(s, t) == Len(s) <= Len(t) /\ SubSeq(t, 1, Len(s)) = s

\* C12: in every step the history of a certificate before the step is a
\* prefix of its history after the step, and after every step each stored
\* certificate has a non-empty history whose first entry has action issued.
C12_HistoryIsAppendOnly ==
    [][ /\ \A id \in DOMAIN certificate_history :
             /\ id \in DOMAIN certificate_history'
             /\ IsPrefix(certificate_history[id], certificate_history'[id])
        /\ \A id \in DOMAIN certificates' :
             /\ id \in DOMAIN certificate_history'
             /\ Len(certificate_history'[id]) >= 1
             /\ certificate_history'[id][1].action = "issued"
      ]_vars

\* a certificate was updated while another certificate exists
C12_Witness ==
    /\ last.method = "update_certificate_status"
    /\ last.error = NoError
    /\ certificate_counter = 2
    /\ Len(certificate_history[last.args.certificate_id]) = 2
    /\ certificate_history[last.args.certificate_id][1].action = "issued"

\* C13: a certificate that comes into existence carries the caller as
\* issuer_org_id and the learner_id and course_id parameters, whatever the
\* metadata payload held for these fields; no later step changes the
\* issuer_org_id or the learner_id of a stored certificate.
C13_IssuerAndLearnerAreBound ==
    [][ /\ \A id \in (DOMAIN certificates') \ (DOMAIN certificates) :
             /\ last'.method = "issue_certificate"
             /\ certificates'[id].metadata.issuer_org_id = last'.caller
             /\ certificates'[id].metadata.learner_id = last'.args.learner_id
             /\ certificates'[id].metadata.course_id = last'.args.course_id
        /\ \A id \in DOMAIN certificates :
             /\ id \in DOMAIN certificates'
             /\ certificates'[id].metadata.issuer_org_id
                  = certificates[id].metadata.issuer_org_id
             /\ certificates'[id].metadata.learner_id
                  = certificates[id].metadata.learner_id
      ]_vars

\* an issuance whose payload named another issuer, learner and course
C13_Witness ==
    /\ last.method = "issue_certificate"
    /\ last.error = NoError
    /\ last.args.metadata.issuer_org_id # last.caller
    /\ last.args.metadata.learner_id # last.args.learner_id
    /\ last.args.metadata.course_id # last.args.course_id
    /\ certificates[last.ret].metadata.issuer_org_id = last.caller

\* C14: a request that fails, with whatever error, leaves every component of
\* the registry, both counters included, as it was, and delegates no transfer.
C14_FailureChangesNothing ==
    [][ (Idle /\ last'.error # NoError)
          => /\ UNCHANGED registry
             /\ last'.transfers = <<>>
      ]_vars

\* an issuance refused for an unknown learner after a certificate and a
\* reward were created
C14_Witness ==
    /\ last.method = "issue_certificate"
    /\ last.error = NotFound
    /\ certificate_counter = 1
    /\ reward_counter = 1

C16_FreshCertificate ==
    [][ (Handled("issue_certificate") /\ last'.error = NoError) =>
          LET id == last'.ret IN
          /\ id \in DOMAIN certificates'
          /\ certificates'[id].status = "pending"
          /\ certificates'[id].issued_at = certificates'[id].updated_at
          /\ id \in DOMAIN certificate_history'
          /\ Len(certificate_history'[id]) = 1
          /\ certificate_history'[id][1].action = "issued"
          /\ certificate_history'[id][1].by_account = last'.caller
      ]_vars

\* C17: the two counters never decrease and move independently. grant_reward
\* fails with NotFound for an unregistered learner and otherwise adds 1 to the
\* reward counter and one reward record, touching no certificate state; a
\* successful issue_certificate adds 1 to the certificate counter and touches
\* no reward state; a stored reward never changes.
C17_CountersAreIndependent ==
    [][ /\ certificate_counter' >= certificate_counter
        /\ reward_counter' >= reward_counter
        /\ \A r \in DOMAIN rewards :
             r \in DOMAIN rewards' /\ rewards'[r] = rewards[r]
        /\ Handled("grant_reward") =>
             IF last'.args.learner_id \notin DOMAIN individuals
             THEN last'.error = NotFound /\ UNCHANGED registry
             ELSE /\ last'.error = NoError
                  /\ reward_counter' = reward_counter + 1
                  /\ Cardinality(DOMAIN rewards') = Cardinality(DOMAIN rewards) + 1
                  /\ last'.ret \in (DOMAIN rewards') \ (DOMAIN rewards)
                  /\ UNCHANGED <<certificate_counter, certificates,
                                 certificate_history>>
        /\ (Handled("issue_certificate") /\ last'.error = NoError) =>
             /\ certificate_counter' = certificate_counter + 1
             /\ UNCHANGED <<reward_counter, rewards>>
      ]_vars

\* the second reward is granted when one certificate has been issued
C17_Witness ==
    /\ last.method = "grant_reward"
    /\ last.error = NoError
    /\ reward_counter = 2
    /\ certificate_counter = 1

\* C18: in every reachable state the stored certificate ids and the ids with
\* a history are exactly cert_1 .. cert_N for N the certificate counter, and
\* the stored reward ids are exactly reward_1 .. reward_M for M the reward
\* counter.
C18_NumberingIsGapFree ==
    /\ DOMAIN certificates = {CertId(n) : n \in 1..certificate_counter}
    /\ DOMAIN certificate_history = {CertId(n) : n \in 1..certificate_counter}
    /\ DOMAIN rewards = {RewardId(n) : n \in 1..reward_counter}

\* a grant has just been refused, with two certificates and one reward stored
C18_Witness ==
    /\ last.method = "grant_reward"
    /\ last.error = NotFound
    /\ certificate_counter = 2
    /\ reward_counter = 1

\* C19: in every reachable state each certificate's issuer is a registered,
\* verified organization and its learner a registered individual, each
\* reward's learner is a registered individual, and each history entry was
\* written by the issuer of the certificate it belongs to.
C19_ReferentialIntegrity ==
    /\ \A id \in DOMAIN certificates :
         /\ certificates[id].metadata.issuer_org_id \in DOMAIN organizations
         /\ organizations[certificates[id].metadata.issuer_org_id].verified
         /\ certificates[id].metadata.learner_id \in DOMAIN individuals
    /\ \A r \in DOMAIN rewards : rewards[r].learner_id \in DOMAIN individuals
    /\ \A id \in DOMAIN certificate_history :
         /\ id \in DOMAIN certificates
         /\ \A i \in 1..Len(certificate_history[id]) :
              certificate_history[id][i].by_account
                = certificates[id].metadata.issuer_org_id

\* two organizations exist, and the issuer has updated and revoked its
\* certificate
C19_Witness ==
    /\ Cardinality(DOMAIN organizations) = 2
    /\ rewards # EmptyMap
    /\ \E id \in DOMAIN certificate_history :
         /\ Len(certificate_history[id]) = 3
         /\ \E i \in 2..3 : certificate_history[id][i].action = "revoked"
         /\ \E i \in 2..3 : certificate_history[id][i].action = "status_updated"

LastEntry(id) == certificate_history[id][Len(certificate_history[id])]

\* C20: in every reachable state a certificate's status follows from the last
\* entry of its history: pending after issued, revoked after revoked, and the
\* status named in the reason after status_updated.
C20_StatusFollowsLastEntry ==
    \A id \in DOMAIN certificates :
       /\ id \in DOMAIN certificate_history
       /\ certificate_history[id] # <<>>
       /\ LastEntry(id).action = "issued" => certificates[id].status = "pending"
       /\ LastEntry(id).action = "revoked" => certificates[id].status = "revoked"
       /\ LastEntry(id).action = "status_updated"
            => certificates[id].status = LastEntry(id).reason[2]
       /\ LastEntry(id).action \in {"issued", "revoked", "status_updated"}

\* a certificate is revoked through update_certificate_status, with no
\* revoked entry in its history
C20_Witness ==
    \E id \in DOMAIN certificates :
       /\ certificates[id].status = "revoked"
       /\ LastEntry(id).action = "status_updated"
       /\ \A i \in 1..Len(certificate_history[id]) :
            certificate_history[id][i].action # "revoked"
====
